---- MODULE Spec2Model ----
(***************************************************************************)
(* Model of src/snake.py: the Snake segment chain, the World grid, the     *)
(* per-tick update (step), rasterization (insertSnake / clearSnake),       *)
(* food placement and the loop of World.run.                               *)
(*                                                                         *)
(* A segment [distance, direction] is the tuple <<distance, direction>>.   *)
(* A cell [row, column] is the tuple <<row, column>>.  The grid self.data  *)
(* is a function from the cells of the grid to one-character strings.      *)
(***************************************************************************)
EXTENDS Integers, Sequences, FiniteSets

VARIABLES
    stage,      \* "start": nothing built; "snake": Snake built; "world": World built
    err,        \* "none", or the exception that ended the program
    length,     \* Snake.length
    segments,   \* Snake.segments, head first
    pos,        \* World.pos, the head's [row, column]
    height,     \* World.height  (0 until assigned)
    width,      \* World.width   (0 until assigned)
    data,       \* World.data
    phase,      \* position in the loop body of World.run; "off" once the calls leave it
    turned,     \* history: number of turn calls since the previous step
    lastTurn,   \* history: direction of the last turn call since the previous step
    single,     \* history: no step so far came after two or more turn calls
    steps,      \* history: number of step calls
    path,       \* history: the cells the head has occupied, most recent first
    args,       \* history: the arguments the constructors were called with
    defaults,   \* the list object that is the default value of Snake.__init__'s
                \*   segments parameter (line 29), created once with the function
    aliased,    \* Snake.segments is that very object (no segments argument given)
    length2,    \* length of a second Snake built without a segments argument, whose
                \*   segments is therefore that object too; 0 while there is none
    ages        \* history: for each segment, the number of step calls since the turn
                \*   call that queued it (for a constructor segment, its distance)

vars == <<stage, err, length, segments, pos, height, width, data,
          phase, turned, lastTurn, single, steps, path, args,
          defaults, aliased, length2, ages>>

(***************************************************************************)
(* Bounds of the model.                                                    *)
(***************************************************************************)
MaxSteps == 3       \* step calls per behaviour when the calls come in any order
MaxSegs == 3        \* segments in the list (caps turn) when the calls come in any order
MaxTicks == 6       \* step calls per behaviour when the calls follow World.run
MaxRunSegs == 6     \* segments in the list (caps turn) when the calls follow World.run
MaxLen == 4         \* snake length (caps grow)
MaxInitLen == 3     \* largest length passed to Snake(...)
SmallH == 4         \* height of the small worlds
SmallW == 4         \* width of the small worlds
MaxCells == 20      \* a world with more cells (the default 16 x 16 one) is
                    \*   explored by turn and step only,
BigSteps == 2       \*   for this many steps
BigSegs == 2        \*   and up to this many segments

(***************************************************************************)
(* Program constants.                                                      *)
(***************************************************************************)
DefaultHeight == 16
DefaultWidth == 16

Dirs == {"N", "S", "E", "W"}
None == <<>>
chars == <<"X", "-", "|", "x">>
foodchar == "*"
blank == " "
DefaultSegments == << <<0, "E">> >>

Max(a, b) == IF a >= b THEN a ELSE b
Min(a, b) == IF a <= b THEN a ELSE b

\* World.matrix_moves
matrix_moves(d) ==
    CASE d = "N" -> <<-1, 0>>
      [] d = "S" -> <<1, 0>>
      [] d = "E" -> <<0, 1>>
      [] d = "W" -> <<0, -1>>

Plus(p, m) == <<p[1] + m[1], p[2] + m[2]>>
Back(p, d, k) == <<p[1] - k * matrix_moves(d)[1], p[2] - k * matrix_moves(d)[2]>>

\* x in range(n)
InRange(x, n) == x \in 0 .. (n - 1)
InGrid(p, h, w) == InRange(p[1], h) /\ InRange(p[2], w)
Grid(h, w) == (0 .. (h - 1)) \X (0 .. (w - 1))

\* Python list indexing lst[i] on a list of n items: negative indices count
\* from the end, anything outside -n .. n-1 raises IndexError.
PyOk(i, n) == i \in (-n) .. (n - 1)
PyIdx(i, n) == IF i < 0 THEN i + n ELSE i
PyCell(p, h, w) == <<PyIdx(p[1], h), PyIdx(p[2], w)>>

\* World.gen
gen(h, w) == [c \in Grid(h, w) |-> blank]

\* the glyph insertSnake draws for a piece of a segment heading d
BodyChar(d) == IF d \in {"E", "W"} THEN chars[2] ELSE chars[3]

\* insertSnake: seg_length of segment i (1-based here)
seg_length(segs, len, i) ==
    IF i < Len(segs) THEN segs[i + 1][1] - segs[i][1]
    ELSE len - segs[i][1]

\* insertSnake: the pieces of one segment, pointer moving opposite its heading
DrawSeg(ptr, d, n) == [k \in 1 .. n |-> <<Back(ptr, d, k - 1), d>>]

\* insertSnake: the sequence of <<cell, direction>> pieces drawn by the two
\* nested loops, in drawing order, before any bounds check
RECURSIVE Pieces(_, _, _, _)
Pieces(segs, len, i, ptr) ==
    IF i > Len(segs) THEN << >>
    ELSE LET n == Max(seg_length(segs, len, i), 0)
             d == segs[i][2]
         IN  DrawSeg(ptr, d, n) \o Pieces(segs, len, i + 1, Back(ptr, d, n))

SnakePieces(segs, len, p) == Pieces(segs, len, 1, p)

\* the grid after the first n pieces have been written over d0
Drawn(d0, ws, n) ==
    [c \in DOMAIN d0 |->
        IF \E k \in 1 .. n : ws[k][1] = c
        THEN LET last == CHOOSE k \in 1 .. n :
                            /\ ws[k][1] = c
                            /\ \A m \in (k + 1) .. n : ws[m][1] # c
             IN  BodyChar(ws[last][2])
        ELSE d0[c]]

\* World.insertSnake on grid d0: the grid it leaves and the exception it raises
insertSnake(d0, segs, len, p, h, w) ==
    LET ws == SnakePieces(segs, len, p)
        bad == {k \in 1 .. Len(ws) : ~InGrid(ws[k][1], h, w)}
    IN  IF bad # {}
        THEN LET first == CHOOSE k \in bad : \A m \in bad : k <= m
             IN  [data |-> Drawn(d0, ws, first - 1), err |-> "OutOfBounds"]
        ELSE IF Len(ws) = 0
        THEN [data |-> d0, err |-> "UnboundLocalError"]
        ELSE LET body == Drawn(d0, ws, Len(ws))
                 tail == ws[Len(ws)][1]
                 withTail == [body EXCEPT ![tail] = chars[4]]
             IN  [data |-> [withTail EXCEPT ![p] = chars[1]], err |-> "none"]

\* World.clearSnake
clearSnake(d0) ==
    [c \in DOMAIN d0 |->
        IF d0[c] \in {chars[1], chars[2], chars[3], chars[4]} THEN blank ELSE d0[c]]

\* a loss() that only looks at the walls
lossWalls(d0, p, h, w) == ~InRange(p[1], h) \/ ~InRange(p[2], w)

\* World.loss
loss(d0, p, h, w) ==
    \/ ~InRange(p[1], h)
    \/ ~InRange(p[2], w)
    \/ d0[p] \in {chars[2], chars[3], chars[4]}

\* World.onFood: "True", "False" or "IndexError"
onFood(d0, p, h, w) ==
    IF ~PyOk(p[1], h) \/ ~PyOk(p[2], w) THEN "IndexError"
    ELSE IF d0[PyCell(p, h, w)] = foodchar THEN "True" ELSE "False"

\* a placeFood that only avoids the food already there
FreeCellsAny(d0) == {c \in DOMAIN d0 : d0[c] # foodchar}

\* World.placeFood: the cells it can end on
FreeCells(d0) == {c \in DOMAIN d0 : d0[c] = blank}


(***************************************************************************)
(* History helpers.                                                        *)
(***************************************************************************)
Trunc(s) == SubSeq(s, 1, Min(Len(s), MaxLen + 1))
Cells(ws) == [k \in 1 .. Len(ws) |-> ws[k][1]]

(***************************************************************************)
(* Arguments the constructors are called with.                             *)
(***************************************************************************)
InitLengths == 1 .. MaxInitLen
DefaultWorld == <<None, DefaultHeight, DefaultWidth>>
SmallWorlds ==
    {<<None, SmallH, SmallW>>,
     <<<<0, SmallW - 1>>, SmallH, SmallW>>,
     <<<<SmallH - 1, 1>>, SmallH, SmallW>>,
     <<<<SmallH, SmallW - 1>>, SmallH, SmallW>>}

Init ==
    /\ stage = "start"
    /\ err = "none"
    /\ length = 0
    /\ segments = << >>
    /\ pos = <<0, 0>>
    /\ height = 0
    /\ width = 0
    /\ data = << >>
    /\ phase = "off"
    /\ turned = 0
    /\ lastTurn = "-"
    /\ single = TRUE
    /\ steps = 0
    /\ path = << >>
    /\ args = [length |-> 0, segments |-> << >>, pos |-> None, height |-> 0, width |-> 0]
    /\ defaults = DefaultSegments
    /\ aliased = FALSE
    /\ length2 = 0
    /\ ages = << >>

\* Snake.__init__(length, segments); dflt: the segments argument is omitted
\* and segs is the default object
SnakeInit(len, segs, dflt) ==
    /\ stage = "start"
    /\ err = "none"
    /\ length' = len
    /\ IF \E i \in 1 .. Len(segs) : segs[i][1] >= len - 1
       THEN /\ err' = "Exception: Snake segments must begin before the tail"
            /\ UNCHANGED <<segments, stage>>
       ELSE /\ segments' = segs
            /\ stage' = "snake"
            /\ err' = "none"
    /\ args' = [args EXCEPT !.length = len, !.segments = segs]
    /\ aliased' = dflt
    /\ ages' = [i \in 1 .. Len(segs) |-> segs[i][1]]
    /\ UNCHANGED <<pos, height, width, data, phase, turned, lastTurn, single, steps, path,
                   defaults, length2>>

\* Snake(length, segments)
NewSnake(len, segs) == SnakeInit(len, segs, FALSE)

\* Snake(length), as on line 277
DefaultSnake(len) == SnakeInit(len, defaults, TRUE)

\* the segments of the second Snake: the default object
segments2 == defaults

\* Snake(length) called once more while the first Snake exists
SecondSnake(len) ==
    /\ stage \in {"snake", "world"}
    /\ err = "none"
    /\ length2 = 0
    /\ length2' = len
    /\ err' = IF \E i \in 1 .. Len(defaults) : defaults[i][1] >= len - 1
              THEN "Exception: Snake segments must begin before the tail"
              ELSE "none"
    /\ UNCHANGED <<stage, length, segments, pos, height, width, data, phase, turned,
                   lastTurn, single, steps, path, args, defaults, aliased, ages>>

\* World.__init__(snake, pos, height, width)
NewWorld(posArg, h, w) ==
    /\ stage = "snake"
    /\ err = "none"
    /\ LET p == IF posArg # None THEN posArg ELSE <<h \div 2, w \div 4>>
       IN  /\ pos' = p
           /\ IF p[2] < length - 1
              THEN /\ err' = "TypeError"
                   /\ UNCHANGED <<height, width, data, stage, phase, path>>
              ELSE LET ins == insertSnake(gen(h, w), segments, length, p, h, w)
                   IN  /\ height' = h
                       /\ width' = w
                       /\ IF ins.err # "none"
                          THEN /\ err' = ins.err
                               /\ data' = ins.data
                               /\ UNCHANGED <<stage, phase, path>>
                          ELSE IF FreeCells(ins.data) = {}
                          THEN /\ err' = "NoTermination"
                               /\ data' = ins.data
                               /\ UNCHANGED <<stage, phase, path>>
                          ELSE /\ \E c \in FreeCells(ins.data) :
                                      data' = [ins.data EXCEPT ![c] = foodchar]
                               /\ err' = "none"
                               /\ stage' = "world"
                               /\ phase' = "top"
                               /\ path' = Trunc(Cells(SnakePieces(segments, length, p)))
    /\ args' = [args EXCEPT !.pos = posArg, !.height = h, !.width = w]
    /\ UNCHANGED <<length, segments, turned, lastTurn, single, steps,
                   defaults, aliased, length2, ages>>

Playing == stage = "world" /\ err = "none"
Small == height * width <= MaxCells

\* a turn that replaces the front segment
QueuedOver(segs, d) == << <<-1, d>> >> \o Tail(segs)

\* Snake.turn, line 80: segments.insert(0, [-1, direction])
Queued(segs, d) == << <<-1, d>> >> \o segs

\* Snake.turn(direction), while the list has fewer than limit segments
TurnBy(d, limit) ==
    /\ Playing
    /\ Len(segments) < limit
    /\ segments' = Queued(segments, d)
    /\ turned' = turned + 1
    /\ lastTurn' = d
    /\ single' = (single /\ turned = 0)
    /\ phase' = IF phase = "rendered" THEN "turned" ELSE "off"
    /\ defaults' = IF aliased THEN segments' ELSE defaults
    /\ ages' = <<0>> \o ages
    /\ UNCHANGED <<stage, err, length, pos, height, width, data, steps, path, args,
                   aliased, length2>>

\* turn with the limit cap in a small world and BigSegs in a larger one
TurnOp(d, cap) == TurnBy(d, IF Small THEN cap ELSE BigSegs)

Turn(d) == TurnOp(d, MaxSegs)

\* Snake.grow(length)
Grow(n) ==
    /\ Playing
    /\ Small
    /\ length + n <= MaxLen
    /\ length' = length + n
    /\ phase' = "off"
    /\ UNCHANGED <<stage, err, segments, pos, height, width, data, turned, lastTurn,
                   single, steps, path, args, defaults, aliased, length2, ages>>

\* World.step, lines 215-217: the snake just turned
Promote(segs) ==
    [i \in 1 .. Len(segs) |-> IF i <= 2 THEN <<segs[i][1] + 1, segs[i][2]>> ELSE segs[i]]

\* a step that shifts the head segment as well
ShiftAll(segs) ==
    [i \in 1 .. Len(segs) |-> <<segs[i][1] + 1, segs[i][2]>>]

\* World.step, lines 219-220: shift all of the segments but the head
Shift(segs) ==
    [i \in 1 .. Len(segs) |-> IF i >= 2 THEN <<segs[i][1] + 1, segs[i][2]>> ELSE segs[i]]

\* a step that moves the head in the direction of the segment behind the head
MoveHeadOld(p, segs) == Plus(p, matrix_moves(segs[Min(2, Len(segs))][2]))

\* a step that moves the head by two cells
MoveHeadTwice(p, segs) == Plus(Plus(p, matrix_moves(segs[1][2])), matrix_moves(segs[1][2]))

\* World.step, lines 222-223: move the head in the direction it is facing
MoveHead(p, segs) == Plus(p, matrix_moves(segs[1][2]))

\* World.step, called while fewer than limit calls were made
StepBy(limit) ==
    /\ Playing
    /\ steps < limit
    /\ steps' = steps + 1
    /\ turned' = 0
    /\ lastTurn' = "-"
    /\ IF Len(segments) = 0
       THEN /\ err' = "IndexError"
            /\ phase' = "off"
            /\ UNCHANGED <<segments, pos, path, ages>>
       ELSE IF segments[1][1] = -1 /\ Len(segments) < 2
       THEN /\ err' = "IndexError"
            /\ segments' = [segments EXCEPT ![1] = <<0, segments[1][2]>>]
            /\ phase' = "off"
            /\ UNCHANGED <<pos, path, ages>>
       ELSE /\ segments' = IF segments[1][1] = -1 THEN Promote(segments)
                           ELSE Shift(segments)
            /\ pos' = MoveHead(pos, segments')
            /\ path' = Trunc(<<pos'>> \o path)
            /\ ages' = [i \in 1 .. Len(ages) |-> ages[i] + 1]
            /\ err' = "none"
            /\ phase' = IF phase \in {"rendered", "turned"}
                        THEN IF loss(data, pos', height, width) THEN "over" ELSE "stepped"
                        ELSE "off"
    /\ defaults' = IF aliased THEN segments' ELSE defaults
    /\ UNCHANGED <<stage, length, height, width, data, single, args, aliased, length2>>

\* step with the limit cap in a small world and BigSteps in a larger one
StepOp(cap) == StepBy(IF Small THEN cap ELSE BigSteps)

Step == StepOp(MaxSteps)

\* World.__repr__ (print(self)): clearSnake, then insertSnake
RenderOp ==
    /\ Playing
    /\ LET ins == insertSnake(clearSnake(data), segments, length, pos, height, width)
       IN  /\ data' = ins.data
           /\ err' = ins.err
           /\ phase' = IF phase # "top" THEN "off"
                       ELSE IF ins.err = "none" THEN "rendered" ELSE "crashed"
    /\ UNCHANGED <<stage, length, segments, pos, height, width, turned, lastTurn,
                   single, steps, path, args, defaults, aliased, length2, ages>>

\* print(self) called in any order with the other operations, in a small world
Render == Small /\ RenderOp

\* World.run, lines 264-272: reached after step when loss() is False
EatFood ==
    /\ Playing
    /\ phase = "stepped"
    /\ IF onFood(data, pos, height, width) = "True"
       THEN /\ length < MaxLen
            /\ length' = length + 1
            /\ LET eaten == [data EXCEPT ![pos] = blank]
               IN  IF onFood(eaten, pos, height, width) = "True"
                   THEN \E c \in FreeCells(eaten) : data' = [eaten EXCEPT ![c] = foodchar]
                   ELSE data' = eaten
       ELSE UNCHANGED <<length, data>>
    /\ phase' = "top"
    /\ UNCHANGED <<stage, err, segments, pos, height, width, turned, lastTurn,
                   single, steps, path, args, defaults, aliased, length2, ages>>

(***************************************************************************)
(* Spec: the program as src/snake.py builds it (Snake(length) with the     *)
(* default segment list), the operations called in any order.              *)
(***************************************************************************)
Next ==
    \/ \E len \in InitLengths : DefaultSnake(len)
    \/ \E a \in SmallWorlds \cup {DefaultWorld} : NewWorld(a[1], a[2], a[3])
    \/ \E d \in Dirs : Turn(d)
    \/ \E n \in 1 .. 2 : Grow(n)
    \/ Step
    \/ Render
    \/ EatFood

Spec == Init /\ [][Next]_vars

(***************************************************************************)
(* SpecRun: the same program, the operations called as the loop of         *)
(* World.run calls them: render; at most one turn; step; loss; food.       *)
(***************************************************************************)
RunRender == RenderOp /\ phase' # "off"
RunTurn == \E d \in Dirs : TurnBy(d, MaxRunSegs) /\ phase' # "off"
RunStep == StepBy(MaxTicks) /\ phase' # "off"

NextRun ==
    \/ \E len \in InitLengths : DefaultSnake(len)
    \/ \E a \in SmallWorlds : NewWorld(a[1], a[2], a[3])
    \/ RunRender
    \/ RunTurn
    \/ RunStep
    \/ EatFood

SpecRun == Init /\ [][NextRun]_vars

(***************************************************************************)
(* SpecAny: Snake and World built from any arguments, the operations       *)
(* called in any order.                                                    *)
(***************************************************************************)
SegLists ==
    {<< >>, DefaultSegments, << <<-1, "E">> >>, << <<0, "W">> >>, << <<1, "E">> >>,
     << <<0, "N">>, <<1, "E">> >>}

NextAny ==
    \/ \E len \in InitLengths, segs \in SegLists : NewSnake(len, segs)
    \/ \E a \in SmallWorlds : NewWorld(a[1], a[2], a[3])
    \/ \E d \in Dirs : Turn(d)
    \/ \E n \in 1 .. 2 : Grow(n)
    \/ Step
    \/ Render
    \/ EatFood

SpecAny == Init /\ [][NextAny]_vars

(***************************************************************************)
(* SpecTwo: the program of Spec, then a second Snake(length); turn and     *)
(* step are called on the first.                                           *)
(***************************************************************************)
NextTwo ==
    \/ \E len \in InitLengths : DefaultSnake(len)
    \/ \E a \in SmallWorlds : NewWorld(a[1], a[2], a[3])
    \/ \E d \in Dirs : Turn(d)
    \/ Step
    \/ \E len \in InitLengths : SecondSnake(len)

SpecTwo == Init /\ [][NextTwo]_vars

(***************************************************************************)
(* SpecFood: World.__init__ with the loop of placeFood taken one sample    *)
(* at a time.  random.choice is fair: a cell that can be drawn forever is  *)
(* drawn eventually.                                                       *)
(***************************************************************************)
\* worlds with no free cell, with one free cell, and with many
FoodWorlds ==
    SmallWorlds \cup {<<<<0, 1>>, 1, 2>>, <<<<0, 1>>, 1, 3>>, <<<<0, 2>>, 2, 3>>,
                      <<<<1, 2>>, 3, 4>>, <<<<1, 1>>, 2, 2>>}

\* World.__init__, lines 108-124: up to and including insertSnake
BeginWorld(posArg, h, w) ==
    /\ stage = "snake"
    /\ err = "none"
    /\ LET p == IF posArg # None THEN posArg ELSE <<h \div 2, w \div 4>>
       IN  /\ pos' = p
           /\ IF p[2] < length - 1
              THEN /\ err' = "TypeError"
                   /\ UNCHANGED <<height, width, data, stage, path>>
              ELSE LET ins == insertSnake(gen(h, w), segments, length, p, h, w)
                   IN  /\ height' = h
                       /\ width' = w
                       /\ data' = ins.data
                       /\ err' = ins.err
                       /\ stage' = IF ins.err = "none" THEN "placing" ELSE stage
                       /\ path' = IF ins.err = "none"
                                  THEN Trunc(Cells(SnakePieces(segments, length, p)))
                                  ELSE path
    /\ args' = [args EXCEPT !.pos = posArg, !.height = h, !.width = w]
    /\ UNCHANGED <<length, segments, phase, turned, lastTurn, single, steps,
                   defaults, aliased, length2, ages>>

\* World.placeFood, lines 200-206: one pass of the loop that draws cell c
Sample(c) ==
    /\ stage = "placing"
    /\ err = "none"
    /\ c \in Grid(height, width)
    /\ IF c \in FreeCells(data)
       THEN /\ data' = [data EXCEPT ![c] = foodchar]
            /\ stage' = "world"
            /\ phase' = "top"
       ELSE UNCHANGED <<data, stage, phase>>
    /\ UNCHANGED <<err, length, segments, pos, height, width, turned, lastTurn, single,
                   steps, path, args, defaults, aliased, length2, ages>>

\* every cell placeFood can draw in some world of FoodWorlds
SampleCells == UNION {Grid(a[2], a[3]) : a \in FoodWorlds}

NextFood ==
    \/ \E len \in InitLengths : DefaultSnake(len)
    \/ \E a \in FoodWorlds : BeginWorld(a[1], a[2], a[3])
    \/ \E c \in SampleCells : Sample(c)

SpecFood ==
    /\ Init
    /\ [][NextFood]_vars
    /\ \A c \in SampleCells : WF_vars(Sample(c))

(***************************************************************************)
(* SpecTurns: the default snake in a small world, any number of turn calls *)
(* (up to MaxTurnSegs segments) between two steps.                         *)
(***************************************************************************)
MaxTurnSegs == 4

TurnMany(d) == TurnOp(d, MaxTurnSegs)

NextTurns ==
    \/ \E len \in InitLengths : DefaultSnake(len)
    \/ \E a \in SmallWorlds : NewWorld(a[1], a[2], a[3])
    \/ \E d \in Dirs : TurnMany(d)
    \/ Step

SpecTurns == Init /\ [][NextTurns]_vars

(***************************************************************************)
(* SpecStraight: World.run as it is written: the loop reads no key and     *)
(* calls no turn.  Each statement of the loop is executed once reached.    *)
(***************************************************************************)
NextStraight ==
    \/ \E len \in InitLengths : DefaultSnake(len)
    \/ \E a \in SmallWorlds : NewWorld(a[1], a[2], a[3])
    \/ RunRender
    \/ RunStep
    \/ EatFood

SpecStraight ==
    /\ Init
    /\ [][NextStraight]_vars
    /\ WF_vars(RunRender)
    /\ WF_vars(RunStep)
    /\ WF_vars(EatFood)

(***************************************************************************)
(* Vocabulary of the properties.                                           *)
(***************************************************************************)
\* the direction-to-delta mapping of the specification
Delta(d) ==
    CASE d = "N" -> <<-1, 0>>
      [] d = "S" -> <<1, 0>>
      [] d = "E" -> <<0, 1>>
      [] d = "W" -> <<0, -1>>

\* the step being taken is a call of step()
Stepping == Playing /\ steps' = steps + 1

\* Snake(3) with the default segments in the default World
DefaultGame ==
    /\ stage = "world"
    /\ args = [length |-> 3, segments |-> DefaultSegments, pos |-> None,
               height |-> DefaultHeight, width |-> DefaultWidth]

\* C1: whenever step() is called after one or more turn calls, the last of
\* them turn(d), the step completes, the frontmost segment becomes
\* <<0, d>> and the head moves by exactly the delta of d; in the default
\* game the head starts at (8,4), is at (8,5) after one step and at (9,5)
\* after turn('S') and a second step.
C1_TurnThenStep ==
    [][ /\ (Stepping /\ lastTurn \in Dirs) =>
              /\ err' = "none"
              /\ segments'[1] = <<0, lastTurn>>
              /\ pos' = Plus(pos, Delta(lastTurn))
        /\ (DefaultGame' /\ steps' = 0) => pos' = <<8, 4>>
        /\ (DefaultGame /\ Stepping /\ steps = 0 /\ turned = 0) => pos' = <<8, 5>>
        /\ (DefaultGame /\ Stepping /\ steps = 1 /\ pos = <<8, 5>> /\ lastTurn = "S")
              => pos' = <<9, 5>>
      ]_vars

C1_Witness ==
    /\ DefaultGame
    /\ steps = 2
    /\ path[2] = <<8, 5>>
    /\ segments = << <<0, "S">>, <<1, "E">> >>
    /\ pos = <<9, 5>>

\* C2: a step() with no turn since the previous step completes, keeps the
\* head segment (same direction, distance 0), moves the head one cell in
\* that direction and adds exactly 1 to the distance of every other segment.
C2_StraightStep ==
    [][ (Stepping /\ turned = 0) =>
              /\ err' = "none"
              /\ Len(segments') = Len(segments)
              /\ segments[1][1] = 0
              /\ segments'[1] = segments[1]
              /\ pos' = Plus(pos, Delta(segments[1][2]))
              /\ \A i \in 2 .. Len(segments) :
                    segments'[i] = <<segments[i][1] + 1, segments[i][2]>>
      ]_vars

C2_Witness ==
    /\ Playing
    /\ steps >= 2
    /\ turned = 0
    /\ segments = << <<0, "S">>, <<2, "W">>, <<2, "E">> >>

\* the cells of the snake's body behind the head before the last step: the
\* length-1 cells the head passed through before the cell it then left
BodyBeforeMove == {path[k] : k \in 3 .. Min(length + 1, Len(path))}

\* C3: loss() is False right after a World is built, and in the loop of
\* World.run it is True after a step exactly when the new head cell is off
\* the grid or is a cell of the body (tail included) as it lay before the move.
C3_LossExact ==
    /\ (Playing /\ steps = 0 /\ phase = "top") => ~loss(data, pos, height, width)
    /\ (Playing /\ phase \in {"stepped", "over"}) =>
          (loss(data, pos, height, width)
             <=> (~InGrid(pos, height, width) \/ pos \in BodyBeforeMove))

\* the cells holding food
FoodCells(d0) == {c \in DOMAIN d0 : d0[c] = foodchar}

\* the cells insertSnake marks as snake
SnakeCells == {SnakePieces(segments, length, pos)[k][1] :
                  k \in 1 .. Len(SnakePieces(segments, length, pos))}

\* the cells the snake's body really lies on: the `length` cells the head
\* visited last
Body == {path[k] : k \in 1 .. Min(length, Len(path))}

\* C4: in every state of play onFood() returns True exactly when the head
\* is at the food cell, and False without raising anywhere else, off the
\* grid included.
C4_OnFoodExact ==
    Playing =>
        onFood(data, pos, height, width)
            = (IF pos \in FoodCells(data) THEN "True" ELSE "False")

\* C5: in the loop of World.run, eating grows the snake by 1 and puts one
\* food cell back before the next tick, away from the cell just eaten and
\* off the snake; so every tick of a game that is not lost starts with
\* exactly one food cell.
C5_FoodReplaced ==
    [][ /\ (Playing /\ phase = "stepped" /\ phase' = "top"
              /\ onFood(data, pos, height, width) = "True") =>
              /\ length' = length + 1
              /\ \E c \in FoodCells(data') :
                    /\ FoodCells(data') = {c}
                    /\ c # pos
                    /\ c \notin Body'
        /\ (Playing' /\ phase' = "top") => Cardinality(FoodCells(data')) = 1
      ]_vars

\* the head is on the grid and on no other cell of the body
NotLost ==
    /\ InGrid(pos, height, width)
    /\ ~loss(data, pos, height, width)
    /\ \A k \in 2 .. Min(length, Len(path)) : path[k] # pos

\* C6: in every state of play that is not lost, reached by steps, grows and
\* single turns, with no turn pending, rasterization marks exactly `length`
\* cells as snake.
C6_RasterCount ==
    (Playing /\ single /\ turned = 0 /\ NotLost) =>
        Cardinality(SnakeCells) = length

\* C7: in the loop of World.run, the grid just rendered for a snake of
\* length >= 2 has the head glyph at the head cell only, the tail glyph at
\* the last cell of the body only, and on every cell between them the
\* horizontal glyph if the snake entered it heading E or W and the vertical
\* glyph if N or S; no other cell carries a body glyph.
C7_RenderedGlyphs ==
    (Playing /\ phase = "rendered" /\ length >= 2 /\ Len(path) >= length) =>
        /\ {c \in DOMAIN data : data[c] = chars[1]} = {pos}
        /\ {c \in DOMAIN data : data[c] = chars[4]} = {path[length]}
        /\ \A k \in 2 .. (length - 1) :
              data[path[k]] = (IF path[k + 1][1] = path[k][1] THEN chars[2] ELSE chars[3])
        /\ {c \in DOMAIN data : data[c] \in {chars[2], chars[3]}}
              = {path[k] : k \in 2 .. (length - 1)}

SnakeError == "Exception: Snake segments must begin before the tail"
WorldError == "Exception: Snake is too long to start at column"

\* C8: Snake(...) is rejected with the configuration error exactly when
\* some initial segment has distance >= length - 1; World(...) is rejected
\* with the configuration error exactly when the start column is below
\* length - 1; a construction that passes both checks succeeds with the
\* whole snake on the grid.
C8_ConstructionChecks ==
    [][ /\ (args.length = 0 /\ args'.length > 0) =>
              /\ (err' = SnakeError) <=>
                    (\E i \in 1 .. Len(args'.segments) :
                        args'.segments[i][1] >= args'.length - 1)
              /\ (err' # SnakeError) => (err' = "none" /\ stage' = "snake")
        /\ (args.height = 0 /\ args'.height > 0) =>
              /\ (err' = WorldError) <=> (pos'[2] < length - 1)
              /\ (pos'[2] >= length - 1) =>
                    /\ err' = "none"
                    /\ stage' = "world"
                    /\ SnakeCells' \subseteq Grid(height', width')
      ]_vars

\* C9: step() never fails, whatever accepted segment list the Snake was
\* built with and whatever turn, grow and step calls came before; it changes
\* nothing but the segment distances and the head position.
C9_StepNeverFails ==
    [][ Stepping =>
              /\ err' = "none"
              /\ Len(segments') = Len(segments)
              /\ \A i \in 1 .. Len(segments) : segments'[i][2] = segments[i][2]
              /\ UNCHANGED <<length, height, width, data>>
      ]_vars

\* C10: in the loop of World.run, while loss() has been False after every
\* step, rendering never raises "Snake is out of bounds" and every cell
\* rasterized as snake is on the grid.
C10_NeverOutOfBounds ==
    stage = "world" =>
        /\ err # "OutOfBounds"
        /\ phase \in {"top", "rendered"} => SnakeCells \subseteq Grid(height, width)

\* C11: a Snake built without a segments argument starts with the single
\* segment <<0, E>> whatever was done to other Snakes before, and no
\* operation on one Snake changes the segments of another.
C11_OwnSegments ==
    [][ /\ (length2 = 0 /\ length2' > 0 /\ err' = "none") => segments2' = << <<0, "E">> >>
        /\ (length2 > 0 /\ length2' > 0) => segments2' = segments2
      ]_vars

\* C12: placeFood() puts the food on a cell no part of the snake covers and
\* adds exactly one food cell (the only free cell when there is just one),
\* and, sampling fairly, it terminates whenever a free cell exists.
C12_PlaceFood ==
    /\ [][ (stage = "placing" /\ stage' = "world") =>
              \E c \in Grid(height, width) :
                 /\ c \notin SnakeCells
                 /\ data[c] # foodchar
                 /\ data' = [data EXCEPT ![c] = foodchar]
                 /\ FoodCells(data') = FoodCells(data) \cup {c}
                 /\ \A f \in Grid(height, width) :
                       ({g \in Grid(height, width) :
                            g \notin SnakeCells /\ data[g] # foodchar} = {f}) => c = f
         ]_vars
    /\ (stage = "placing"
          /\ \E g \in Grid(height, width) : g \notin SnakeCells /\ data[g] # foodchar)
         ~> (stage = "world")

C12_Witness ==
    /\ stage = "world"
    /\ height = 1
    /\ width = 3
    /\ SnakeCells = {<<0, 0>>, <<0, 1>>}
    /\ FoodCells(data) = {<<0, 2>>}

\* C13: once a Snake has been built, whatever turn, step and grow calls follow,
\* every segment starts before the tail: its distance is below length - 1.
C13_SegmentsBeforeTail ==
    (stage \in {"snake", "world"} /\ err = "none") =>
        \A i \in 1 .. Len(segments) : segments[i][1] < length - 1

\* the Snake was built without a segments argument
DefaultSegs == args.segments = DefaultSegments

\* C14: after every step(), however many turn calls came since the previous
\* step and whatever happened before, the segment list is ordered head first
\* by non-decreasing distance.
C14_SortedAfterStep ==
    [][ (Stepping /\ err' = "none") =>
           \A i \in 1 .. Len(segments') - 1 : segments'[i][1] <= segments'[i + 1][1]
      ]_vars

\* C15: from the default snake the frontmost distance is always 0 or -1; right
\* after every step() it is 0 and no segment of the list has distance -1,
\* however many turn calls preceded the step.
C15_PromotedOnce ==
    [][ /\ (Playing' /\ DefaultSegs) => segments'[1][1] \in {0, -1}
        /\ (Stepping /\ DefaultSegs /\ err' = "none") =>
              /\ segments'[1][1] = 0
              /\ \A i \in 1 .. Len(segments') : segments'[i][1] # -1
      ]_vars

\* C16: in the loop of World.run with at most one turn per step, the segment
\* list encodes the path of the head: every segment behind the front one has
\* as distance the number of steps since the turn that ended it, and the
\* cells rasterized as snake are the `length` cells the head visited last.
C16_FaithfulChain ==
    (Playing /\ single /\ phase \in {"top", "rendered", "turned", "stepped"}) =>
        /\ \A i \in 2 .. Len(segments) : segments[i][1] = ages[i - 1]
        /\ phase = "rendered" => SnakeCells = Body

\* the step being taken is the print(self) at the top of the loop of World.run
Rendering == Playing /\ phase = "top" /\ phase' = "rendered"

\* C17: rendering never loses the food: a cell that holds food before
\* render() holds it afterwards and no other cell does, and render() leaves
\* the head position, the segments and the length unchanged.
C17_RenderKeepsFood ==
    [][ Rendering =>
           /\ FoodCells(data') = FoodCells(data)
           /\ UNCHANGED <<pos, segments, length, height, width>>
      ]_vars

\* C18: turn(d) only prepends the segment <<-1, d>> and leaves length, the
\* head position, the grid and every existing segment as they were;
\* grow(delta) only adds delta to length and leaves the segments, the head
\* position and the grid as they were; step() leaves length and the grid as
\* they were.
C18_Frames ==
    [][ /\ \A d \in Dirs :
              Turn(d) => /\ Len(segments') = Len(segments) + 1
                         /\ segments'[1] = <<-1, d>>
                         /\ \A i \in 1 .. Len(segments) : segments'[i + 1] = segments[i]
                         /\ UNCHANGED <<length, pos, data>>
        /\ \A n \in 1 .. 2 :
              Grow(n) => /\ length' = length + n
                         /\ UNCHANGED <<segments, pos, data>>
        /\ Step => UNCHANGED <<length, data>>
      ]_vars

C18_Witness ==
    /\ Playing
    /\ steps > 0
    /\ turned > 0
    /\ length > args.length
    /\ Len(segments) = 3

Opposite(d) ==
    CASE d = "N" -> "S"
      [] d = "S" -> "N"
      [] d = "E" -> "W"
      [] d = "W" -> "E"

\* the step being taken is the step() of a tick of World.run whose turn was
\* to the direction opposite the heading, the snake being at least 2 long
Reversing ==
    /\ Stepping
    /\ phase = "turned"
    /\ length >= 2
    /\ lastTurn = Opposite(segments[2][2])

StartCol == IF args.pos = None THEN args.width \div 4 ELSE args.pos[2]

\* C20: with no turn, in every World built with the default eastbound
\* segment and the head at column c, the loop of World.run finds loss() True
\* after exactly width - c steps and not before, food eaten or not, and
\* then ends.
C20_StraightGameEnds ==
    /\ [](Playing =>
            /\ steps <= width - StartCol
            /\ loss(data, pos, height, width) <=> steps = width - StartCol
            /\ phase = "over" <=> steps = width - StartCol)
    /\ Playing ~> (Playing /\ phase = "over")
    /\ [][phase = "over" => phase' = "over"]_vars

C20_Witness ==
    /\ Playing
    /\ phase = "over"
    /\ steps = width - StartCol
    /\ steps >= 2
    /\ length > args.length

====
